---------------------------- MODULE Spec2Model ----------------------------
(***************************************************************************)
(* A model of AI/ai_detector.py: the command-line run (module import,      *)
(* main, LocalAIDetector.__init__/_load_models, analyze_video and its two  *)
(* detection passes count_performers and detect_watermark) and the text    *)
(* functions _has_onlyfans_text and _extract_username.                     *)
(*                                                                         *)
(* Conventions.  An Optional value is a set: None is {} and a value x is   *)
(* {x}.  A Python str is a sequence of one-character strings.  A float     *)
(* that the code obtains as a quotient of two small integers is the pair   *)
(* <<numerator, denominator>>; 0.0 is <<0, 1>>.  The third-party calls     *)
(* (cv2.VideoCapture, the YOLO detector, the EasyOCR reader, Path.exists)  *)
(* are nondeterministic choices over the outcomes they can produce.        *)
(***************************************************************************)
EXTENDS Integers, Sequences, FiniteSets, Bags, TLC

VARIABLES
    pc,         \* position of the interpreter in the run
    argv,       \* sys.argv, a sequence of strings
    env,        \* the machine: installed packages, model files, the video file
    stdout,     \* the JSON documents printed to standard output, in order
    stderr,     \* what was printed to standard error, in order
    exit_code,  \* Optional: the exit status once the process has ended
    result,     \* analyze_video's result dict
    cp,         \* the locals of count_performers
    dw,         \* the locals of detect_watermark
    text_results, \* what ocr_reader.readtext returned for one corner
    text,       \* the argument of a direct _extract_username call
    username    \* the value that call returned

vars == <<pc, argv, env, stdout, stderr, exit_code, result, cp, dw,
          text_results, text, username>>

None == {}
Some(x) == {x}
TheValue(opt) == CHOOSE x \in opt : TRUE

-----------------------------------------------------------------------------
(* Bounds of the model.                                                    *)

MaxTotalFrames == 4     \* frame counts the video reports: 0 .. MaxTotalFrames
MaxPersons == 2         \* boxes the person detector reports for one frame
MaxNumFrames == 9       \* num_frames of a direct count_performers call
MaxSegments == 3        \* pieces a text given to _extract_username is made of

-----------------------------------------------------------------------------
(* Characters and str.lower().                                             *)

Letters == <<"a","b","c","d","e","f","g","h","i","j","k","l","m",
             "n","o","p","q","r","s","t","u","v","w","x","y","z">>
Capitals == <<"A","B","C","D","E","F","G","H","I","J","K","L","M",
              "N","O","P","Q","R","S","T","U","V","W","X","Y","Z">>
Digits == {"0","1","2","3","4","5","6","7","8","9"}
AsciiLetters == {Letters[i] : i \in 1..26} \cup {Capitals[i] : i \in 1..26}
\* LATIN SMALL LETTER LONG S (U+017F): one of the four non-ASCII letters
\* that [a-z] and the letter s match under re.IGNORECASE; it is lower case.
LongS == "U+017F"
Whitespace == {" "}

\* The lower-case letter of each capital.
ToLower ==
    [c \in {Capitals[i] : i \in 1..26} |->
        Letters[CHOOSE i \in 1..26 : Capitals[i] = c]]

lowerChar(c) == IF c \in DOMAIN ToLower THEN ToLower[c] ELSE c

\* str.lower()
lower(s) == [i \in 1..Len(s) |-> lowerChar(s[i])]

\* The class [a-zA-Z0-9_-] as the validation at line 237 uses it (no flag).
UsernameChar(c) == c \in AsciiLetters \cup Digits \cup {"_", "-"}

\* The same class under re.IGNORECASE, as the patterns use it.
UsernameCharIgnoreCase(c) == UsernameChar(c) \/ c = LongS

\* A literal pattern character (the patterns are lower case) against a
\* character of the text under re.IGNORECASE.
LiteralMatches(p, c) == c = p \/ lowerChar(c) = p \/ (p = "s" /\ c = LongS)

-----------------------------------------------------------------------------
(* Regular-expression search for the shapes the two text functions use.    *)
(* A pattern is [lit, ws, tail]: the literal lit, then \s* when ws, then   *)
(* the literal tail; a capturing pattern is [lit, ws] followed by the      *)
(* group ([a-zA-Z0-9_-]+).                                                 *)

LiteralAt(lit, s, i) ==
    /\ i >= 1
    /\ i + Len(lit) - 1 <= Len(s)
    /\ \A j \in 1..Len(lit) : LiteralMatches(lit[j], s[i + j - 1])

\* The position after the longest run of whitespace starting at i (\s*).
RECURSIVE SkipWhitespace(_, _)
SkipWhitespace(s, i) ==
    IF i <= Len(s) /\ s[i] \in Whitespace THEN SkipWhitespace(s, i + 1) ELSE i

\* The last position of the longest run of class characters starting at i
\* (the greedy +); i - 1 when s[i] is not in the class.
RECURSIVE RunEnd(_, _)
RunEnd(s, i) ==
    IF i <= Len(s) /\ UsernameCharIgnoreCase(s[i]) THEN RunEnd(s, i + 1) ELSE i - 1

\* Where the group starts when pattern pat is tried at position i.
GroupStart(pat, s, i) ==
    IF pat.ws THEN SkipWhitespace(s, i + Len(pat.lit)) ELSE i + Len(pat.lit)

MatchesAt(pat, s, i) ==
    /\ LiteralAt(pat.lit, s, i)
    /\ RunEnd(s, GroupStart(pat, s, i)) >= GroupStart(pat, s, i)

\* re.search(pattern, text, re.IGNORECASE) followed by match.group(1):
\* None, or the group of the leftmost match.
SearchGroup(pat, s) ==
    LET starts == {i \in 1..Len(s) : MatchesAt(pat, s, i)} IN
    IF starts = {} THEN None
    ELSE LET i == CHOOSE k \in starts : \A m \in starts : k <= m
             g == GroupStart(pat, s, i)
         IN  Some(SubSeq(s, g, RunEnd(s, g)))

-----------------------------------------------------------------------------
(* _has_onlyfans_text (lines 204-217).  gap is what stands between lit and *)
(* tail: nothing, \s* or .*                                                *)

BrandPatterns == <<
    [lit |-> <<"o","n","l","y","f","a","n","s">>, gap |-> "none", tail |-> <<>>],
    [lit |-> <<"o","n","l","y">>, gap |-> "ws", tail |-> <<"f","a","n","s">>],
    [lit |-> <<"o","f">>, gap |-> "ws", tail |-> <<":">>],
    [lit |-> <<"o","f">>, gap |-> "ws", tail |-> <<"/">>],
    [lit |-> <<"@">>, gap |-> "any", tail |-> <<"o","n","l","y","f","a","n","s">>] >>

BrandMatchesAt(pat, s, i) ==
    /\ LiteralAt(pat.lit, s, i)
    /\ CASE pat.gap = "none" -> LiteralAt(pat.tail, s, i + Len(pat.lit))
         [] pat.gap = "ws" ->
                LiteralAt(pat.tail, s, SkipWhitespace(s, i + Len(pat.lit)))
         [] pat.gap = "any" ->
                \E j \in (i + Len(pat.lit))..Len(s) : LiteralAt(pat.tail, s, j)

has_onlyfans_text(s) ==
    \E k \in 1..Len(BrandPatterns) :
        \E i \in 1..Len(s) : BrandMatchesAt(BrandPatterns[k], s, i)

-----------------------------------------------------------------------------
(* _extract_username (lines 219-240).                                      *)

MinUsernameLen == 3
MaxUsernameLen == 30

UsernamePatterns == <<
    [lit |-> <<"o","n","l","y","f","a","n","s",".","c","o","m","/">>, ws |-> FALSE],
    [lit |-> <<"o","n","l","y","f","a","n","s",".","c","o","m","\\">>, ws |-> FALSE],
    [lit |-> <<"o","n","l","y","f","a","n","s",":">>, ws |-> TRUE],
    [lit |-> <<"o","f",":">>, ws |-> TRUE],
    [lit |-> <<"o","f","/">>, ws |-> FALSE],
    [lit |-> <<"@">>, ws |-> FALSE],
    [lit |-> <<"/">>, ws |-> FALSE] >>

\* The validation with the upper limit excluded.
ValidUsernameExclusive(u) ==
    /\ MinUsernameLen <= Len(u)
    /\ Len(u) < MaxUsernameLen
    /\ \A i \in 1..Len(u) : UsernameChar(u[i])

\* The validation at line 237.
ValidUsername(u) ==
    /\ MinUsernameLen <= Len(u)
    /\ Len(u) <= MaxUsernameLen
    /\ \A i \in 1..Len(u) : UsernameChar(u[i])

\* The loop at lines 232-238 from pattern k on, and the return at line 240.
RECURSIVE ExtractFrom(_, _)
ExtractFrom(s, k) ==
    IF k > Len(UsernamePatterns) THEN None
    ELSE LET match == SearchGroup(UsernamePatterns[k], s) IN
         IF match # None /\ ValidUsername(TheValue(match))
         THEN Some(lower(TheValue(match)))
         ELSE ExtractFrom(s, k + 1)

extract_username(s) == ExtractFrom(s, 1)

-----------------------------------------------------------------------------
(* The text handling of one corner in detect_watermark (lines 157-164).    *)

\* ' '.join(text_results)
RECURSIVE Join(_)
Join(parts) ==
    IF parts = <<>> THEN <<>>
    ELSE IF Len(parts) = 1 THEN parts[1]
    ELSE parts[1] \o <<" ">> \o Join(Tail(parts))

\* The username the corner contributes: Optional.
CornerUsername(parts) ==
    LET t == lower(Join(parts)) IN
    IF has_onlyfans_text(t) THEN extract_username(t) ELSE None

\* detections.append(username) when there is one.  The list is read only
\* through count(), len() and set(), none of which depends on the order of
\* its elements, so it is kept as a bag.
AppendDetection(detections, opt) ==
    IF opt = None THEN detections
    ELSE detections (+) SetToBag(opt)

-----------------------------------------------------------------------------
(* Output.  json.dumps writes a dict as one JSON object with the dict's    *)
(* keys as its members (None as null); print appends it to a stream.       *)

json_dumps(d) == [type |-> "json", members |-> d]
PlainText(msg) == [type |-> "text", message |-> msg]

ZeroConfidence == <<0, 1>>

\* The dict printed by the import guard (lines 20-27).
MissingPackagesDict ==
    [error |-> Some("Missing required packages"),
     message |-> Some("Please run: pip install ..."),
     performer_count |-> None,
     onlyfans_detected |-> FALSE,
     onlyfans_username |-> None,
     confidence |-> ZeroConfidence]

\* The dict printed by _load_models on failure (lines 52-58).
LoadFailedDict ==
    [error |-> Some("Failed to load models: ..."),
     performer_count |-> None,
     onlyfans_detected |-> FALSE,
     onlyfans_username |-> None,
     confidence |-> ZeroConfidence]

\* The dict printed by main when no path is given (lines 291-294).
UsageDict ==
    [error |-> Some("Usage: python ai_detector.py <video_path>"),
     success |-> FALSE]

\* The dict analyze_video starts from (lines 252-259).
InitialResult ==
    [success |-> TRUE,
     performer_count |-> None,
     onlyfans_detected |-> FALSE,
     onlyfans_username |-> None,
     confidence |-> ZeroConfidence,
     error |-> None]

NoDict == <<>>

-----------------------------------------------------------------------------
(* Frame sampling and aggregation.                                         *)

DefaultNumFrames == 8
NumCorners == 4

\* The sampling with the frames divided by num_frames, not num_frames + 1.
CountFrameIndicesNoMargin(total_frames, num_frames) ==
    [i \in 1..num_frames |-> (total_frames * i) \div num_frames]

\* Lines 82-85: int(total_frames * i / (num_frames + 1)) for i = 1..num_frames.
\* The float quotient truncates to the integer quotient for every frame
\* count and num_frames a video can have.
CountFrameIndices(total_frames, num_frames) ==
    [i \in 1..num_frames |-> (total_frames * i) \div (num_frames + 1)]

\* Line 134, in percent.
SamplePositions == <<5, 25, 50, 75, 95>>

\* Line 135: int(total_frames * pos).
WatermarkFrameIndices(total_frames) ==
    [i \in 1..Len(SamplePositions) |-> (total_frames * SamplePositions[i]) \div 100]

\* min in place of max: a least frequent value.
LeastCommon(xs) ==
    {v \in BagToSet(xs) : \A w \in BagToSet(xs) : CopiesIn(w, xs) >= CopiesIn(v, xs)}

\* max(set(xs), key=xs.count): the values max can return.  It returns the
\* first value of the set's iteration order that has the highest count, and
\* that order is not fixed by the language, so every most frequent value is
\* a possible outcome.
MostCommon(xs) ==
    {v \in BagToSet(xs) : \A w \in BagToSet(xs) : CopiesIn(w, xs) <= CopiesIn(v, xs)}

\* The threshold with >= in place of >.
AtOrAboveThreshold(confidence) == 5 * confidence[1] >= 2 * confidence[2]

\* Line 179: confidence > 0.4 for confidence = num / den.
AboveThreshold(confidence) == 5 * confidence[1] > 2 * confidence[2]

-----------------------------------------------------------------------------
(* The locals of the two passes.                                           *)
(* cap: "none" (no capture yet), "failed" (isOpened() is false), "open",   *)
(* "released".  k: the position in frame_indices the loop is at.  reads:   *)
(* the cap.read() calls made.  raised: an exception reached the function's *)
(* except clause.  ret: Optional, the value returned.                      *)

CpIdle(num_frames) ==
    [cap |-> "none", num_frames |-> num_frames, total_frames |-> 0,
     frame_indices |-> <<>>, k |-> 0, counts |-> EmptyBag,
     reads |-> 0, raised |-> FALSE, ret |-> None]

\* corner: the corner of the current frame the inner loop is at (0 between
\* frames).  ocr_failed: the except clause at lines 166-167 was taken.
DwIdle ==
    [cap |-> "none", total_frames |-> 0, frame_indices |-> <<>>, k |-> 0,
     corner |-> 0, detections |-> EmptyBag, reads |-> 0, ocr_failed |-> FALSE,
     raised |-> FALSE, ret |-> <<None, FALSE, ZeroConfidence>>]

-----------------------------------------------------------------------------
(* What the OCR reader returns for a corner in the command-line run: lists *)
(* of recognised strings.                                                  *)

OcrReadings == {
    <<>>,                                                   \* nothing recognised
    << <<"O","n","l","y","F","a","n","s">> >>,              \* the brand alone
    << <<"@","B","o","b">> >>,                              \* a handle, no brand
    << <<"O","n","l","y","F","a","n","s",".","c","o","m","/","B","o","b">> >>,
    << <<"O","F",":">>, <<"a","m","y","_","1">> >>,
    << <<"o","n","l","y">>, <<"f","a","n","s">>, <<"@","C","a","t">> >> }

\* What lines 157-164 make of each of these readings.
CornerContributions == {CornerUsername(parts) : parts \in OcrReadings}

-----------------------------------------------------------------------------
(* The command-line run.  env.path is what Path(video_path).exists() does: *)
(* "file" (True), "missing" (False) or "error" (it raises); env.opens is   *)
(* cap.isOpened(); env.total_frames is CAP_PROP_FRAME_COUNT; env.readable  *)
(* is whether cap.read() can return a frame at all.                        *)

Envs ==
    {e \in [packages : BOOLEAN, models : BOOLEAN,
            path : {"missing", "file", "error"},
            opens : BOOLEAN, total_frames : 0..MaxTotalFrames,
            readable : BOOLEAN] :
        /\ e.opens => e.path = "file"
        /\ e.total_frames > 0 => e.opens
        /\ e.readable => e.total_frames > 0}

Init ==
    /\ pc = "import"
    /\ argv \in {<<"ai_detector.py">>, <<"ai_detector.py", "video.mp4">>}
    /\ env \in Envs
    /\ stdout = <<>>
    /\ stderr = <<>>
    /\ exit_code = None
    /\ result = NoDict
    /\ cp = CpIdle(DefaultNumFrames)
    /\ dw = DwIdle
    /\ text_results = <<>>
    /\ text = <<>>
    /\ username = None

\* Lines 16-28: the import guard.
ImportModule ==
    /\ pc = "import"
    /\ IF env.packages
       THEN /\ pc' = "main"
            /\ UNCHANGED <<stdout, exit_code>>
       ELSE /\ stdout' = Append(stdout, json_dumps(MissingPackagesDict))
            /\ exit_code' = Some(1)
            /\ pc' = "exit"
    /\ UNCHANGED <<argv, env, stderr, result, cp, dw, text_results, text, username>>

\* Lines 288-297: main up to the construction of the detector.
Main ==
    /\ pc = "main"
    /\ IF Len(argv) < 2
       THEN /\ stdout' = Append(stdout, json_dumps(UsageDict))
            /\ exit_code' = Some(1)
            /\ pc' = "exit"
       ELSE /\ pc' = "load_models"
            /\ UNCHANGED <<stdout, exit_code>>
    /\ UNCHANGED <<argv, env, stderr, result, cp, dw, text_results, text, username>>

\* Lines 300, 34-59: LocalAIDetector() and _load_models.
LoadModels ==
    /\ pc = "load_models"
    /\ IF env.models
       THEN /\ pc' = "analyze_video"
            /\ UNCHANGED <<stderr, exit_code>>
       ELSE /\ stderr' = Append(stderr, json_dumps(LoadFailedDict))
            /\ exit_code' = Some(1)
            /\ pc' = "exit"
    /\ UNCHANGED <<argv, env, stdout, result, cp, dw, text_results, text, username>>

\* analyze_video without the test that the file exists.
AnalyzeVideoUnchecked ==
    /\ pc = "analyze_video"
    /\ IF env.path = "error"
       THEN /\ result' = [InitialResult EXCEPT !.success = FALSE,
                                               !.error = Some("str(e)")]
            /\ pc' = "print"
       ELSE /\ result' = InitialResult
            /\ pc' = "cp_open"
    /\ cp' = CpIdle(DefaultNumFrames)
    /\ UNCHANGED <<argv, env, stdout, stderr, exit_code, dw, text_results, text, username>>

\* Lines 252-269: analyze_video up to the call of count_performers.
AnalyzeVideo ==
    /\ pc = "analyze_video"
    /\ CASE env.path = "error" ->
              /\ result' = [InitialResult EXCEPT !.success = FALSE,
                                                 !.error = Some("str(e)")]
              /\ pc' = "print"
         [] env.path = "missing" ->
              /\ result' = [InitialResult EXCEPT !.success = FALSE,
                                                 !.error = Some("Video file not found")]
              /\ pc' = "print"
         [] env.path = "file" ->
              /\ result' = InitialResult
              /\ pc' = "cp_open"
    /\ cp' = CpIdle(DefaultNumFrames)
    /\ UNCHANGED <<argv, env, stdout, stderr, exit_code, dw, text_results, text, username>>

\* Lines 73-87: open the capture, read the frame count, choose the frames.
CpOpen ==
    /\ pc = "cp_open"
    /\ IF ~env.opens
       THEN /\ cp' = [cp EXCEPT !.cap = "failed", !.ret = None]
            /\ pc' = "cp_return"
       ELSE IF env.total_frames = 0
       THEN /\ cp' = [cp EXCEPT !.cap = "open", !.ret = None]
            /\ pc' = "cp_return"
       ELSE /\ cp' = [cp EXCEPT !.cap = "open",
                                !.total_frames = env.total_frames,
                                !.frame_indices =
                                    CountFrameIndices(env.total_frames, cp.num_frames),
                                !.k = 1]
            /\ pc' = "cp_loop"
    /\ UNCHANGED <<argv, env, stdout, stderr, exit_code, result, dw,
                   text_results, text, username>>

\* Lines 88-100: one iteration of the frame loop, and the except clause
\* (lines 110-112) when a call in it raises.
CpFrame ==
    /\ pc = "cp_loop"
    /\ cp.k <= Len(cp.frame_indices)
    /\ \/ \* cap.read() returns no frame: continue
          /\ cp' = [cp EXCEPT !.reads = @ + 1, !.k = @ + 1]
          /\ UNCHANGED <<pc, stderr>>
       \/ \* the person detector (or the read before it) raises
          /\ cp' = [cp EXCEPT !.reads = @ + 1, !.raised = TRUE, !.ret = None]
          /\ stderr' = Append(stderr, PlainText("Error counting performers"))
          /\ pc' = "cp_return"
       \/ \* the detector returns no result that has boxes
          /\ env.readable
          /\ cp' = [cp EXCEPT !.reads = @ + 1, !.k = @ + 1]
          /\ UNCHANGED <<pc, stderr>>
       \/ \* the detector reports person_count boxes
          \E person_count \in 0..MaxPersons :
              /\ env.readable
              /\ cp' = [cp EXCEPT !.reads = @ + 1, !.k = @ + 1,
                                  !.counts = @ (+) SetToBag({person_count})]
              /\ UNCHANGED <<pc, stderr>>
    /\ UNCHANGED <<argv, env, stdout, exit_code, result, dw,
                   text_results, text, username>>

\* Lines 102-108: after the loop.
CpFinish ==
    /\ pc = "cp_loop"
    /\ cp.k > Len(cp.frame_indices)
    /\ IF cp.counts = EmptyBag
       THEN cp' = [cp EXCEPT !.cap = "released", !.ret = None]
       ELSE \E v \in MostCommon(cp.counts) :
                cp' = [cp EXCEPT !.cap = "released", !.ret = Some(v)]
    /\ pc' = "cp_return"
    /\ UNCHANGED <<argv, env, stdout, stderr, exit_code, result, dw,
                   text_results, text, username>>

\* Lines 269-274: analyze_video takes the count and calls detect_watermark.
\* The locals of count_performers are gone.
AnalyzeCount ==
    /\ pc = "cp_return"
    /\ result' = IF cp.ret # None
                 THEN [result EXCEPT !.performer_count = cp.ret]
                 ELSE result
    /\ cp' = CpIdle(DefaultNumFrames)
    /\ dw' = DwIdle
    /\ pc' = "dw_open"
    /\ UNCHANGED <<argv, env, stdout, stderr, exit_code, text_results, text, username>>

\* Lines 125-137.
DwOpen ==
    /\ pc = "dw_open"
    /\ IF ~env.opens
       THEN /\ dw' = [dw EXCEPT !.cap = "failed"]
            /\ pc' = "dw_return"
       ELSE IF env.total_frames = 0
       THEN /\ dw' = [dw EXCEPT !.cap = "open"]
            /\ pc' = "dw_return"
       ELSE /\ dw' = [dw EXCEPT !.cap = "open",
                                !.total_frames = env.total_frames,
                                !.frame_indices =
                                    WatermarkFrameIndices(env.total_frames),
                                !.k = 1]
            /\ pc' = "dw_loop"
    /\ UNCHANGED <<argv, env, stdout, stderr, exit_code, result, cp,
                   text_results, text, username>>

\* Lines 139-146: position the capture, read a frame, cut its corners; the
\* except clause (lines 183-185) when one of these raises.
DwRead ==
    /\ pc = "dw_loop"
    /\ dw.k <= Len(dw.frame_indices)
    /\ \/ \* cap.read() returns no frame: continue
          /\ dw' = [dw EXCEPT !.reads = @ + 1, !.k = @ + 1]
          /\ UNCHANGED <<pc, stderr>>
       \/ \* the read raises
          /\ dw' = [dw EXCEPT !.reads = @ + 1, !.raised = TRUE,
                              !.ret = <<None, FALSE, ZeroConfidence>>]
          /\ stderr' = Append(stderr, PlainText("Error detecting watermark"))
          /\ pc' = "dw_return"
       \/ \* a frame: go through its corners
          /\ env.readable
          /\ dw' = [dw EXCEPT !.reads = @ + 1, !.corner = 1]
          /\ pc' = "dw_corner"
          /\ UNCHANGED stderr
    /\ UNCHANGED <<argv, env, stdout, exit_code, result, cp,
                   text_results, text, username>>

\* The loop counters after one corner (lines 148, 139).
NextCorner(d) ==
    IF d.corner = NumCorners
    THEN [d EXCEPT !.corner = 0, !.k = @ + 1]
    ELSE [d EXCEPT !.corner = @ + 1]

\* The corner loop without its own try: an OCR exception reaches the
\* function's except clause.
DwCornerUnguarded ==
    /\ pc = "dw_corner"
    /\ \/ /\ dw' = [dw EXCEPT !.raised = TRUE, !.ocr_failed = TRUE,
                              !.ret = <<None, FALSE, ZeroConfidence>>]
          /\ pc' = "dw_return"
       \/ /\ \E contribution \in CornerContributions :
                 dw' = NextCorner([dw EXCEPT !.detections =
                                      AppendDetection(@, contribution)])
          /\ pc' = IF dw.corner = NumCorners THEN "dw_loop" ELSE "dw_corner"
    /\ UNCHANGED <<argv, env, stdout, stderr, exit_code, result, cp,
                   text_results, text, username>>

\* Lines 148-167: one corner of the current frame.
DwCorner ==
    /\ pc = "dw_corner"
    /\ \/ \* the OCR reader raises: continue with the next corner
          dw' = NextCorner([dw EXCEPT !.ocr_failed = TRUE])
       \/ \* the reader returns a reading: lines 157-164
          \E contribution \in CornerContributions :
              dw' = NextCorner([dw EXCEPT !.detections =
                                   AppendDetection(@, contribution)])
    /\ pc' = IF dw.corner = NumCorners THEN "dw_loop" ELSE "dw_corner"
    /\ UNCHANGED <<argv, env, stdout, stderr, exit_code, result, cp,
                   text_results, text, username>>

\* Lines 176, 179, 181 for the most common username.
WatermarkResult(detections, most_common) ==
    LET confidence == <<CopiesIn(most_common, detections), BagCardinality(detections)>>
        has_onlyfans == AboveThreshold(confidence)
    IN  <<IF has_onlyfans THEN Some(most_common) ELSE None, has_onlyfans, confidence>>

\* Lines 169-181: after the loop.
DwFinish ==
    /\ pc = "dw_loop"
    /\ dw.k > Len(dw.frame_indices)
    /\ IF dw.detections = EmptyBag
       THEN dw' = [dw EXCEPT !.cap = "released",
                             !.ret = <<None, FALSE, ZeroConfidence>>]
       ELSE \E most_common \in MostCommon(dw.detections) :
                dw' = [dw EXCEPT !.cap = "released",
                                 !.ret = WatermarkResult(dw.detections, most_common)]
    /\ pc' = "dw_return"
    /\ UNCHANGED <<argv, env, stdout, stderr, exit_code, result, cp,
                   text_results, text, username>>

\* Lines 274-280: analyze_video takes the watermark result and returns.
AnalyzeWatermark ==
    /\ pc = "dw_return"
    /\ result' = IF dw.ret[2]
                 THEN [result EXCEPT !.onlyfans_detected = TRUE,
                                     !.onlyfans_username = dw.ret[1],
                                     !.confidence = dw.ret[3]]
                 ELSE result
    /\ pc' = "print"
    /\ UNCHANGED <<argv, env, stdout, stderr, exit_code, cp, dw,
                   text_results, text, username>>

\* Lines 303-306 and the normal end of the interpreter.
PrintResult ==
    /\ pc = "print"
    /\ stdout' = Append(stdout, json_dumps(result))
    /\ exit_code' = Some(0)
    /\ pc' = "exit"
    /\ UNCHANGED <<argv, env, stderr, result, cp, dw, text_results, text, username>>

Next ==
    \/ ImportModule
    \/ Main
    \/ LoadModels
    \/ AnalyzeVideo
    \/ CpOpen
    \/ CpFrame
    \/ CpFinish
    \/ AnalyzeCount
    \/ DwOpen
    \/ DwRead
    \/ DwCorner
    \/ DwFinish
    \/ AnalyzeWatermark
    \/ PrintResult

Spec == Init /\ [][Next]_vars

-----------------------------------------------------------------------------
(* Direct calls of count_performers(video_path, num_frames) and of         *)
(* detect_watermark(video_path) on a video file that exists.               *)

InitCall ==
    /\ \/ /\ pc = "cp_open"
          /\ \E num_frames \in 1..MaxNumFrames : cp = CpIdle(num_frames)
       \/ /\ pc = "dw_open"
          /\ cp = CpIdle(DefaultNumFrames)
    /\ argv = <<"ai_detector.py", "video.mp4">>
    /\ env \in {e \in Envs : e.packages /\ e.models /\ e.path = "file"}
    /\ stdout = <<>>
    /\ stderr = <<>>
    /\ exit_code = None
    /\ result = NoDict
    /\ dw = DwIdle
    /\ text_results = <<>>
    /\ text = <<>>
    /\ username = None

NextCall ==
    \/ CpOpen
    \/ CpFrame
    \/ CpFinish
    \/ DwOpen
    \/ DwRead
    \/ DwCorner
    \/ DwFinish

SpecCall == InitCall /\ [][NextCall]_vars

-----------------------------------------------------------------------------
(* Direct calls of _extract_username(text), and of the text handling of    *)
(* one corner, on texts put together from the pieces below.                *)

Repeat(c, n) == [i \in 1..n |-> c]

Pieces == {
    <<"O","n","l","y","F","a","n","s",".","c","o","m","/">>,
    <<"o","n","l","y","f","a","n","s",".","c","o","m","\\">>,
    <<"o","n","l","y","f","a","n","s",":">>,
    <<"O","F",":">>,
    <<"o","f","/">>,
    <<"@">>,
    <<"/">>,
    <<" ">>,
    <<"a","b">>,
    <<"B","o","b">>,
    Repeat("x", MaxUsernameLen),
    Repeat("x", MaxUsernameLen + 1),
    <<LongS>> }

RECURSIVE PieceLists(_)
PieceLists(n) ==
    IF n = 0 THEN {<<>>}
    ELSE LET shorter == PieceLists(n - 1) IN
         shorter \cup {Append(l, p) : l \in shorter, p \in Pieces}

\* ''.join(parts)
RECURSIVE Concat(_)
Concat(parts) == IF parts = <<>> THEN <<>> ELSE parts[1] \o Concat(Tail(parts))

InitText ==
    /\ \/ /\ pc = "extract_call"
          /\ \E parts \in PieceLists(MaxSegments) : text = Concat(parts)
          /\ text_results = <<>>
       \/ /\ pc = "corner_call"
          /\ text_results \in PieceLists(MaxSegments)
          /\ text = <<>>
    /\ argv = <<"ai_detector.py", "video.mp4">>
    /\ env \in {e \in Envs : e.packages /\ e.models /\ e.readable
                                /\ e.total_frames = 1}
    /\ stdout = <<>>
    /\ stderr = <<>>
    /\ exit_code = None
    /\ result = NoDict
    /\ cp = CpIdle(DefaultNumFrames)
    /\ dw = DwIdle
    /\ username = None

\* username = self._extract_username(text)
ExtractUsernameCall ==
    /\ pc = "extract_call"
    /\ username' = extract_username(text)
    /\ pc' = "extract_return"
    /\ UNCHANGED <<argv, env, stdout, stderr, exit_code, result, cp, dw,
                   text_results, text>>

\* Lines 157-164 on the reader's text_results.
CornerCall ==
    /\ pc = "corner_call"
    /\ dw' = [dw EXCEPT !.detections = AppendDetection(@, CornerUsername(text_results))]
    /\ pc' = "corner_return"
    /\ UNCHANGED <<argv, env, stdout, stderr, exit_code, result, cp,
                   text_results, text, username>>

NextText ==
    \/ ExtractUsernameCall
    \/ CornerCall

SpecText == InitText /\ [][NextText]_vars

-----------------------------------------------------------------------------
(* Properties of the command-line run.                                     *)

Exited == pc = "exit"

\* analyze_video has returned its result dict.
Analyzed == pc \in {"print", "exit"} /\ result # NoDict

Printed == [i \in 1..Len(stdout) |-> stdout[i]] \o stderr

\* Some stream holds a JSON object whose "error" member is not null.
ErrorPayloadEmitted ==
    \E i \in 1..Len(Printed) :
        /\ Printed[i].type = "json"
        /\ "error" \in DOMAIN Printed[i].members
        /\ Printed[i].members.error # None

\* C1: when the packages are missing, the models fail to load, or the path
\* given on the command line names no existing file, the process ends with
\* exit code 1 after emitting a JSON error payload.
C1_ExitCodeOneOnFailure ==
    (Exited /\ (\/ ~env.packages
                \/ ~env.models
                \/ (Len(argv) >= 2 /\ env.path = "missing")))
        => (exit_code = Some(1) /\ ErrorPayloadEmitted)

ResultFields ==
    {"success", "performer_count", "onlyfans_detected", "onlyfans_username",
     "confidence", "error"}

\* C2: every terminating run writes exactly one JSON document to standard
\* output, and that document has all six result fields.
C2_OneDocumentWithSixFields ==
    Exited =>
        /\ Len(stdout) = 1
        /\ stdout[1].type = "json"
        /\ ResultFields \subseteq DOMAIN stdout[1].members

\* C3: for a path that does not exist analyze_video returns success = false
\* with an error string and every other field at its default, and neither
\* detection pass is entered: no capture is created and no frame is read.
C3_MissingPathFails ==
    env.path = "missing" =>
        /\ pc \in {"import", "main", "load_models", "analyze_video", "print", "exit"}
        /\ cp.cap = "none" /\ cp.reads = 0
        /\ dw.cap = "none" /\ dw.reads = 0
        /\ Analyzed =>
              /\ result.success = FALSE
              /\ result.error # None
              /\ result.performer_count = None
              /\ result.onlyfans_detected = FALSE
              /\ result.onlyfans_username = None
              /\ result.confidence = ZeroConfidence

C3_Witness ==
    /\ env.path = "missing"
    /\ pc = "print"
    /\ result.success = FALSE
    /\ result.error = Some("Video file not found")

\* The file exists but cannot be decoded.
Undecodable ==
    /\ env.path = "file"
    /\ (~env.opens \/ env.total_frames = 0 \/ ~env.readable)

\* C4: for a file that exists but cannot be decoded, the result is a failure
\* record or carries at least one detection; it is never success = true with
\* error = null and no detection.
C4_DecodeFailureReported ==
    (Analyzed /\ Undecodable) =>
        \/ (result.success = FALSE /\ result.error # None)
        \/ result.performer_count # None
        \/ result.onlyfans_detected

\* v is a most frequent member of the bag xs.
IsMode(v, xs) ==
    /\ v \in BagToSet(xs)
    /\ \A w \in BagToSet(xs) : CopiesIn(w, xs) <= CopiesIn(v, xs)

\* C5: count_performers returns a mode of the counts it collected, and None
\* exactly when it has no count to return: the capture did not open, the
\* video has no frames, no frame gave a count, or an exception ended it.
C5_ReturnsMode ==
    pc = "cp_return" =>
        /\ cp.ret # None => IsMode(TheValue(cp.ret), cp.counts)
        /\ cp.ret = None <=>
              (cp.cap = "failed" \/ cp.frame_indices = <<>>
               \/ cp.counts = EmptyBag \/ cp.raised)

\* A return with two different counts equally frequent.
C5_Witness ==
    /\ pc = "cp_return"
    /\ cp.ret # None
    /\ \E v, w \in BagToSet(cp.counts) :
          v # w /\ CopiesIn(v, cp.counts) = CopiesIn(w, cp.counts)
                /\ IsMode(v, cp.counts)
    /\ BagCardinality(cp.counts) < cp.reads

\* C9: a capture that count_performers or detect_watermark opened is
\* released when the function returns.
C9_CaptureReleased ==
    /\ pc = "cp_return" => cp.cap # "open"
    /\ pc = "dw_return" => dw.cap # "open"

-----------------------------------------------------------------------------
(* Per-frame failures (C6).                                                *)

\* An iteration of count_performers' loop goes on to the next frame and
\* keeps the counts collected so far; with abort_allowed it may instead end
\* the function through its except clause, returning None.
CpIterationStep(abort_allowed) ==
    (pc = "cp_loop" /\ cp.k <= Len(cp.frame_indices)) =>
        \/ /\ pc' = "cp_loop"
           /\ cp'.k = cp.k + 1
           /\ cp.counts \sqsubseteq cp'.counts
        \/ /\ abort_allowed
           /\ pc' = "cp_return"
           /\ cp'.raised
           /\ cp'.ret = None

\* After the last frame the counts collected decide the value returned.
CpResultStep ==
    (pc = "cp_loop" /\ cp.k > Len(cp.frame_indices) /\ cp.counts # EmptyBag) =>
        /\ pc' = "cp_return"
        /\ cp'.ret # None
        /\ IsMode(TheValue(cp'.ret), cp.counts)

\* A read of detect_watermark that returns no frame goes on to the next
\* frame and keeps the usernames collected so far.
DwReadStep ==
    (pc = "dw_loop" /\ pc' = "dw_loop") =>
        /\ dw'.k = dw.k + 1
        /\ dw'.detections = dw.detections

\* Whatever happens at a corner, the OCR exception included, the loop goes
\* on to the next corner (or frame) and keeps the usernames collected.
DwCornerStep ==
    pc = "dw_corner" =>
        /\ dw.detections \sqsubseteq dw'.detections
        /\ IF dw.corner = NumCorners
           THEN pc' = "dw_loop" /\ dw'.k = dw.k + 1
           ELSE pc' = "dw_corner" /\ dw'.k = dw.k /\ dw'.corner = dw.corner + 1

\* After the last frame the usernames collected decide the value returned.
DwResultStep ==
    (pc = "dw_loop" /\ dw.k > Len(dw.frame_indices) /\ dw.detections # EmptyBag) =>
        /\ pc' = "dw_return"
        /\ \E u \in BagToSet(dw.detections) :
              /\ IsMode(u, dw.detections)
              /\ dw'.ret[3] = <<CopiesIn(u, dw.detections), BagCardinality(dw.detections)>>

\* C6 as claimed: a failed frame read, a person-detector exception on one
\* frame and an OCR exception on one corner each affect only that frame or
\* corner: the loop goes on and what was collected is used for the result.
C6_FailureIsPerFrame ==
    [][/\ CpIterationStep(FALSE)
       /\ CpResultStep
       /\ DwReadStep
       /\ DwCornerStep
       /\ DwResultStep]_vars

\* C6 amended: the same for a read that returns no frame and for an OCR
\* exception on a corner; an exception raised in an iteration of
\* count_performers' loop (the person detector's) ends the function through
\* its except clause: the remaining frames are not processed and the function
\* returns None whatever it had collected.
C6_Amended ==
    [][/\ CpIterationStep(TRUE)
       /\ CpResultStep
       /\ DwReadStep
       /\ DwCornerStep
       /\ DwResultStep]_vars

\* count_performers was ended by an exception; detect_watermark then went
\* through all its frames, met an OCR exception and still detected a username.
C6_Witness ==
    /\ pc = "print"
    /\ \E i \in 1..Len(stderr) : stderr[i] = PlainText("Error counting performers")
    /\ result.performer_count = None
    /\ dw.ocr_failed
    /\ dw.reads = Len(SamplePositions)
    /\ ~dw.raised
    /\ result.onlyfans_detected

-----------------------------------------------------------------------------
(* The watermark verdict (C7).                                             *)

\* Some most frequent member of d has more than 40% of d.
MajorityShare(d) ==
    \E u \in BagToSet(d) :
        IsMode(u, d) /\ 5 * CopiesIn(u, d) > 2 * BagCardinality(d)

WatermarkFields(d) ==
    /\ result.onlyfans_detected =>
          /\ result.onlyfans_username # None
          /\ IsMode(TheValue(result.onlyfans_username), d)
          /\ result.confidence =
                <<CopiesIn(TheValue(result.onlyfans_username), d), BagCardinality(d)>>
    /\ ~result.onlyfans_detected =>
          /\ result.onlyfans_username = None
          /\ result.confidence = ZeroConfidence

\* C7 as claimed: onlyfans_detected is true exactly when a username was
\* extracted and the most frequent one has strictly more than 40% of all
\* extracted usernames; then the username and its share are reported, and
\* otherwise null and 0.0.
C7_DetectedIffMajority ==
    Analyzed =>
        /\ result.onlyfans_detected <=>
              (dw.detections # EmptyBag /\ MajorityShare(dw.detections))
        /\ WatermarkFields(dw.detections)

\* C7 amended: the same provided detect_watermark was not ended by an
\* exception; when it was, nothing is detected whatever had been extracted.
C7_Amended ==
    Analyzed =>
        /\ result.onlyfans_detected <=>
              (~dw.raised /\ dw.detections # EmptyBag /\ MajorityShare(dw.detections))
        /\ WatermarkFields(dw.detections)

\* Five usernames, the most frequent twice: exactly 40%, not a detection.
C7_Witness ==
    /\ Analyzed
    /\ ~dw.raised
    /\ BagCardinality(dw.detections) = 5
    /\ \E u \in BagToSet(dw.detections) :
          IsMode(u, dw.detections) /\ CopiesIn(u, dw.detections) = 2
    /\ ~result.onlyfans_detected

-----------------------------------------------------------------------------
(* Frame sampling (C10), for direct calls with any num_frames.             *)

InRange(indices, total_frames) ==
    \A i \in 1..Len(indices) : indices[i] \in 0..(total_frames - 1)

NonDecreasing(indices) ==
    \A i, j \in 1..Len(indices) : i <= j => indices[i] <= indices[j]

\* q is floor(a / b).
IsFloor(q, a, b) == q * b <= a /\ a < (q + 1) * b

SampledIndices ==
    /\ cp.frame_indices # <<>> =>
          /\ Len(cp.frame_indices) = cp.num_frames
          /\ \A i \in 1..cp.num_frames :
                IsFloor(cp.frame_indices[i], cp.total_frames * i, cp.num_frames + 1)
          /\ InRange(cp.frame_indices, cp.total_frames)
          /\ NonDecreasing(cp.frame_indices)
    /\ dw.frame_indices # <<>> =>
          /\ Len(dw.frame_indices) = 5
          /\ \A i \in 1..5 :
                IsFloor(dw.frame_indices[i],
                        dw.total_frames * <<5, 25, 50, 75, 95>>[i], 100)
          /\ InRange(dw.frame_indices, dw.total_frames)
          /\ NonDecreasing(dw.frame_indices)

-----------------------------------------------------------------------------
(* Username extraction (C8).                                               *)

FirstGroup(k, s) == SearchGroup(UsernamePatterns[k], s)

ValidLength(g) == Len(g) \in 3..30

AsciiOnly(g) ==
    \A i \in 1..Len(g) : g[i] \in AsciiLetters \cup Digits \cup {"_", "-"}

LowerCase(g) == \A i \in 1..Len(g) : \A c \in 1..26 : g[i] # Capitals[c]

First(ks) == CHOOSE k \in ks : \A m \in ks : k <= m

\* The patterns, in priority order, whose first match has a group of valid
\* length, and those whose group is also made of ASCII characters only.
OfValidLength(s) ==
    {k \in 1..Len(UsernamePatterns) :
        LET g == FirstGroup(k, s) IN g # None /\ ValidLength(TheValue(g))}

Qualifying(s) ==
    {k \in 1..Len(UsernamePatterns) :
        LET g == FirstGroup(k, s) IN
        g # None /\ ValidLength(TheValue(g)) /\ AsciiOnly(TheValue(g))}

\* The lower-cased group of the first pattern among ks, None when ks is empty.
GroupOfFirst(ks, s) ==
    IF ks = {} THEN None
    ELSE Some(lower(TheValue(FirstGroup(First(ks), s))))

WellFormed(opt) ==
    opt # None =>
        /\ LowerCase(TheValue(opt))
        /\ ValidLength(TheValue(opt))
        /\ AsciiOnly(TheValue(opt))

\* A username is recorded for a corner only when the corner's text has the
\* branding and _extract_username yields a value, which is what is recorded.
RecordedOnlyWithBrand ==
    (pc = "corner_return" /\ dw.detections # EmptyBag) =>
        LET t == lower(Join(text_results))
            q == Qualifying(t)
        IN  /\ \E k \in 1..Len(BrandPatterns) :
                  \E i \in 1..Len(t) : BrandMatchesAt(BrandPatterns[k], t, i)
            /\ q # {}
            /\ dw.detections = SetToBag(GroupOfFirst(q, t))

\* C8 as claimed: the value _extract_username returns is lower-case, 3 to 30
\* characters of letters, digits, underscore and dash, and is the group of
\* the first pattern whose first match has a group of valid length; None is
\* returned when no pattern has one.
C8_FirstPatternOfValidLength ==
    /\ RecordedOnlyWithBrand
    /\ pc = "extract_return" =>
          /\ WellFormed(username)
          /\ LET q == OfValidLength(text) IN username = GroupOfFirst(q, text)

\* C8 amended: the pattern used is the first whose first match has a group
\* that is 3 to 30 characters long and made only of ASCII letters, digits,
\* underscore and dash; a group holding a non-ASCII letter that the
\* case-insensitive class admits is passed over like one of invalid length.
C8_Amended ==
    /\ RecordedOnlyWithBrand
    /\ pc = "extract_return" =>
          /\ WellFormed(username)
          /\ LET q == Qualifying(text) IN username = GroupOfFirst(q, text)

\* A username written with a capital in the text and taken from a pattern
\* that comes after one whose group was passed over.
C8_Witness ==
    /\ pc = "extract_return"
    /\ username # None
    /\ LET q == Qualifying(text)
           first == First(q)
       IN  /\ \E k \in 1..(first - 1) : FirstGroup(k, text) # None
           /\ ~LowerCase(TheValue(FirstGroup(first, text)))

=============================================================================
